---- MODULE Spec2Model ----
(***************************************************************************)
(* Model of the H2 dialect of sqlalchemy/dialects/h2/base.py: the          *)
(* reflection methods of H2Dialect (table_names, has_table, get_columns,   *)
(* get_primary_keys, get_pk_constraint, get_foreign_keys, get_indexes) and *)
(* H2DDLCompiler.get_column_specification.                                 *)
(*                                                                         *)
(* Text is a sequence of one-character strings, so that upper-casing,      *)
(* regular-expression search and splitting are computed on characters.     *)
(* The catalog (INFORMATION_SCHEMA) is a record of row sequences.          *)
(***************************************************************************)
EXTENDS Integers, Sequences, FiniteSets, TLC

VARIABLES catalog, default_schema_name, call, result

vars == <<catalog, default_schema_name, call, result>>

(* ------------------------------------------------------------------ *)
(* Bounds                                                               *)
(* ------------------------------------------------------------------ *)
MaxTables == 2
MaxIdxRows == 3
MaxColRows == 2
MaxFkRows == 2
MaxPkCols == 2

(* ------------------------------------------------------------------ *)
(* Text                                                                 *)
(* ------------------------------------------------------------------ *)
\* Python None (never equal to any text)
None == <<"<None>">>

LowerLetters == <<"a","b","c","d","e","f","g","h","i","j","k","l","m",
                  "n","o","p","q","r","s","t","u","v","w","x","y","z">>
UpperLetters == <<"A","B","C","D","E","F","G","H","I","J","K","L","M",
                  "N","O","P","Q","R","S","T","U","V","W","X","Y","Z">>

UpperChar(c) ==
    IF \E i \in 1..26 : LowerLetters[i] = c
    THEN UpperLetters[CHOOSE i \in 1..26 : LowerLetters[i] = c]
    ELSE c

\* str.upper()
upper(s) == [i \in 1..Len(s) |-> UpperChar(s[i])]

\* characters in ASCII order, for ORDER BY table_name
AsciiOrder == <<"\n", " ", "'", "(", ")", ",", ".", "0", "1", "2">>
              \o UpperLetters \o <<"_">> \o LowerLetters

Ord(c) == CHOOSE i \in 1..Len(AsciiOrder) : AsciiOrder[i] = c

RECURSIVE TextLess(_, _)
TextLess(s, t) ==
    IF t = <<>> THEN FALSE
    ELSE IF s = <<>> THEN TRUE
    ELSE IF Ord(s[1]) # Ord(t[1]) THEN Ord(s[1]) < Ord(t[1])
    ELSE TextLess(Tail(s), Tail(t))

\* s[i:i+len(lit)] == lit
LitAt(s, i, lit) ==
    /\ i >= 1
    /\ i + Len(lit) - 1 <= Len(s)
    /\ SubSeq(s, i, i + Len(lit) - 1) = lit

\* the elements of a sequence
Range(s) == {s[i] : i \in 1..Len(s)}

\* all sequences over S of length at most n
SeqsUpTo(S, n) == UNION {[1..k -> S] : k \in 0..n}

PUBLIC == <<"P","U","B","L","I","C">>

S2 == <<"S","2">>

\* text of a short name written as characters
T_ == <<"T">>
U_ == <<"U">>
t_ == <<"t">>
public_ == <<"p","u","b","l","i","c">>

(* ------------------------------------------------------------------ *)
(* H2IdentifierPreparer (quoting is configured empty)                   *)
(* ------------------------------------------------------------------ *)
initial_quote == <<>>
escape_quote == <<>>
final_quote == initial_quote
escape_to_quote == escape_quote \o escape_quote

\* str.replace(old, new); with old empty and new empty the text is unchanged
RECURSIVE Replace(_, _, _)
Replace(s, old, new) ==
    IF old = <<>> THEN (IF new = <<>> THEN s ELSE new \o s)
    ELSE IF s = <<>> THEN <<>>
    ELSE IF LitAt(s, 1, old)
         THEN new \o Replace(SubSeq(s, Len(old) + 1, Len(s)), old, new)
         ELSE <<s[1]>> \o Replace(Tail(s), old, new)

_escape_identifier(value) == Replace(value, escape_quote, escape_to_quote)

_unescape_identifier(value) == Replace(value, escape_to_quote, escape_quote)

quote_identifier(value) ==
    initial_quote \o _escape_identifier(value) \o final_quote

(* ------------------------------------------------------------------ *)
(* Catalog queries                                                      *)
(* ------------------------------------------------------------------ *)
Ok(v) == [status |-> "ok", value |-> v]
Raised(e) == [status |-> "error", error |-> e]

TABLE_TYPE_TABLE == <<"T","A","B","L","E">>
TABLE_TYPE_VIEW == <<"V","I","E","W">>
COL_TABLE_NAME == <<"T","A","B","L","E","_","N","A","M","E">>
COL_TABLE_SCHEMA == <<"T","A","B","L","E","_","S","C","H","E","M","A">>
COL_TABLE_TYPE == <<"T","A","B","L","E","_","T","Y","P","E">>

\* 'PUBLIC' as written in the query text
QUOTED_PUBLIC == <<"'">> \o PUBLIC \o <<"'">>

\* the operand a piece of query text denotes: text between single quotes is
\* a string literal, any other text is an identifier
SqlOperand(token) ==
    IF Len(token) >= 2 /\ token[1] = "'" /\ token[Len(token)] = "'"
    THEN [kind |-> "literal", text |-> SubSeq(token, 2, Len(token) - 1)]
    ELSE [kind |-> "identifier", text |-> upper(token)]

\* an identifier has to name a column of information_schema.tables
Resolves(operand) ==
    \/ operand.kind = "literal"
    \/ operand.text \in {COL_TABLE_NAME, COL_TABLE_SCHEMA, COL_TABLE_TYPE}

OperandValue(operand, r) ==
    IF operand.kind = "literal" THEN operand.text
    ELSE IF operand.text = COL_TABLE_NAME THEN r.table_name
    ELSE IF operand.text = COL_TABLE_SCHEMA THEN r.table_schema
    ELSE r.table_type

\* SELECT table_name FROM information_schema.tables
\*   WHERE table_type='TABLE' AND table_schema=<schema> ORDER BY table_name
QueryTables(cat, schema) ==
    IF ~Resolves(SqlOperand(schema)) THEN Raised("DBAPIError")
    ELSE
      LET rows == {r \in cat.tables :
                      /\ r.table_type = TABLE_TYPE_TABLE
                      /\ r.table_schema = OperandValue(SqlOperand(schema), r)}
          \* one entry per row, no DISTINCT
          list == CHOOSE f \in [1..Cardinality(rows) -> rows] : Range(f) = rows
      IN  Ok(SortSeq([i \in 1..Len(list) |-> list[i].table_name], TextLess))

\* the same listing with AND table_name=<name> and no ORDER BY: the rows
QueryTable(cat, schema, name) ==
    IF ~Resolves(SqlOperand(schema)) \/ ~Resolves(SqlOperand(name))
    THEN Raised("DBAPIError")
    ELSE Ok({r \in cat.tables :
                /\ r.table_type = TABLE_TYPE_TABLE
                /\ r.table_schema = OperandValue(SqlOperand(schema), r)
                /\ r.table_name = OperandValue(SqlOperand(name), r)})

\* rows of a catalog view for TABLE_NAME = '%s' AND TABLE_SCHEMA = '%s'
\* (both names are written between quotes: string literals)
RowsOf(rows, table_name, schema) ==
    SelectSeq(rows, LAMBDA r : r.table_name = table_name /\ r.table_schema = schema)

(* ------------------------------------------------------------------ *)
(* H2Dialect                                                            *)
(* ------------------------------------------------------------------ *)
\* the default schema reported in lower case
default_schema_lower == public_

_get_default_schema_name == PUBLIC

\* connection.execute(s), then [row[0] for row in rs]
table_names(cat, schema) ==
    IF schema # None
    THEN QueryTables(cat, quote_identifier(upper(schema)))
    ELSE QueryTables(cat, QUOTED_PUBLIC)

get_table_names(cat, schema) == table_names(cat, schema)

\* connection.execute(s), then rs.fetchone() is not None
has_table(cat, table_name, schema) ==
    LET rs == IF schema # None
              THEN QueryTable(cat, quote_identifier(upper(schema)),
                              quote_identifier(upper(table_name)))
              ELSE QueryTable(cat, QUOTED_PUBLIC,
                              quote_identifier(upper(table_name)))
    IN  IF rs.status = "error" THEN rs ELSE Ok(rs.value # {})

(* ---- get_columns ---- *)
ischema_names ==
    [t \in {"BIGINT", "BINARY", "BLOB", "BOOLEAN", "CHAR", "CLOB", "DATE",
            "DECIMAL", "DOUBLE", "INT", "INTEGER", "SMALLINT", "TIME",
            "TIMESTAMP", "VARCHAR", "VARCHAR_IGNORECASE"} |->
        CASE t = "DOUBLE" -> "NUMERIC"
          [] t = "INT" -> "INTEGER"
          [] t = "VARCHAR_IGNORECASE" -> "VARCHAR"
          [] OTHER -> t]

NVF == <<"N","E","X","T"," ","V","A","L","U","E"," ","F","O","R"," ">>

\* '.' of a regular expression: any character but a newline
Dot(c) == c # "\n"

AllDot(s, a, b) == \A k \in a..b : Dot(s[k])

\* .*$ from position p: the rest has no newline but perhaps a final one
DotStarEnd(s, p) ==
    \E e \in (p - 1)..Len(s) :
        /\ AllDot(s, p, e)
        /\ \/ e = Len(s)
           \/ e = Len(s) - 1 /\ s[Len(s)] = "\n"

\* re.search(r"(NEXT VALUE FOR )([^\.]+)('.*$)", default) is not None
SequenceDefaultMatch(default) ==
    \E i \in 1..Len(default) :
        /\ LitAt(default, i, NVF)
        /\ \E j \in (i + Len(NVF) + 1)..Len(default) :
              /\ default[j] = "'"
              /\ \A k \in (i + Len(NVF))..(j - 1) : default[k] # "."
              /\ DotStarEnd(default, j + 1)

\* AUTO_INCREMENT of the type-metadata join is "true", "false" or "null"
column_info(row) ==
    [name |-> row.column_name,
     type |-> ischema_names[row.type_name],
     nullable |-> row.is_nullable,
     default |-> row.column_default,
     autoincrement |->
        IF row.column_default # None /\ SequenceDefaultMatch(row.column_default)
        THEN "true" ELSE row.auto_increment]

\* the loop over the fetched rows; ischema_names[type_name] raises KeyError
RECURSIVE ColumnsLoop(_, _)
ColumnsLoop(rows, columns) ==
    IF rows = <<>> THEN Ok(columns)
    ELSE IF rows[1].type_name \notin DOMAIN ischema_names THEN Raised("KeyError")
    ELSE ColumnsLoop(Tail(rows), Append(columns, column_info(rows[1])))

\* get_columns skipping the rows whose type name is not mapped
get_columns_skipping(cat, table_name, schema) ==
    LET sch == IF schema = None THEN _get_default_schema_name ELSE schema
        rows == SelectSeq(RowsOf(cat.columns, table_name, sch),
                          LAMBDA r : r.type_name \in DOMAIN ischema_names)
    IN  Ok([i \in 1..Len(rows) |-> column_info(rows[i])])

get_columns(cat, table_name, schema) ==
    LET sch == IF schema = None THEN _get_default_schema_name ELSE schema
    IN  ColumnsLoop(RowsOf(cat.columns, table_name, sch), <<>>)

(* ---- get_primary_keys, get_pk_constraint ---- *)
PrimaryKeyColumns(cat, table_name, schema) ==
    LET rows == SelectSeq(RowsOf(cat.indexes, table_name, schema),
                          LAMBDA r : r.primary_key)
    IN  [i \in 1..Len(rows) |-> rows[i].column_name]

get_primary_keys(cat, table_name, schema) ==
    LET sch == IF schema = None THEN _get_default_schema_name ELSE schema
    IN  Ok(PrimaryKeyColumns(cat, table_name, sch))

get_pk_constraint(cat, table_name, schema) ==
    LET sch == IF schema = None THEN _get_default_schema_name ELSE schema
        cols == get_primary_keys(cat, table_name, sch).value
        rows == SelectSeq(RowsOf(cat.constraints, table_name, sch),
                          LAMBDA r : r.constraint_type = "PRIMARY_KEY")
        name == IF rows = <<>> THEN None ELSE rows[1].constraint_name
    IN  Ok([constrained_columns |-> cols, name |-> name])

(* ---- get_foreign_keys ---- *)
FK_LIT == <<"F","O","R","E","I","G","N"," ","K","E","Y","(">>
REF_LIT == <<"R","E","F","E","R","E","N","C","E","S"," ">>

Min(S) == CHOOSE x \in S : \A y \in S : x <= y

\* (.*?)\((.*?)\)  from position t: the positions of "(" with a ")" after it
TableEnds(s, t) ==
    {u \in t..Len(s) :
        /\ s[u] = "("
        /\ AllDot(s, t, u - 1)
        /\ \E v \in (u + 1)..Len(s) : s[v] = ")" /\ AllDot(s, u + 1, v - 1)}

\* (?:(.*?)\.)  from position r: the positions of "." the rest matches after
SchemaEnds(s, r) ==
    {d \in r..Len(s) :
        s[d] = "." /\ AllDot(s, r, d - 1) /\ TableEnds(s, d + 1) # {}}

\* .*?REFERENCES  from position p: the starts of the literal
RefStarts(s, p) ==
    {q \in p..Len(s) :
        /\ LitAt(s, q, REF_LIT)
        /\ AllDot(s, p, q - 1)
        /\ \/ SchemaEnds(s, q + Len(REF_LIT)) # {}
           \/ TableEnds(s, q + Len(REF_LIT)) # {}}

\* (.*?)\)  from position a: the positions of the closing ")"
ConstrainedEnds(s, a) ==
    {p \in a..Len(s) :
        s[p] = ")" /\ AllDot(s, a, p - 1) /\ RefStarts(s, p + 1) # {}}

FkStarts(s) ==
    {i \in 1..Len(s) :
        LitAt(s, i, FK_LIT) /\ ConstrainedEnds(s, i + Len(FK_LIT)) # {}}

\* re.search('FOREIGN KEY\((.*?)\).*?REFERENCES (?:(.*?)\.)?(.*?)\((.*?)\)',
\*           condef): the four groups of the first match, which exists
\*           when FkStarts(condef) is not empty
FkSearch(condef) ==
      LET a == Min(FkStarts(condef)) + Len(FK_LIT)
          p == Min(ConstrainedEnds(condef, a))
          r == Min(RefStarts(condef, p + 1)) + Len(REF_LIT)
          hasSchema == SchemaEnds(condef, r) # {}
          d == IF hasSchema THEN Min(SchemaEnds(condef, r)) ELSE r - 1
          u == Min(TableEnds(condef, d + 1))
          v == Min({w \in (u + 1)..Len(condef) : condef[w] = ")"})
      IN  [constrained_columns |-> SubSeq(condef, a, p - 1),
           referred_schema |-> IF hasSchema THEN SubSeq(condef, r, d - 1)
                               ELSE None,
           referred_table |-> SubSeq(condef, d + 1, u - 1),
           referred_columns |-> SubSeq(condef, u + 1, v - 1)]

IsSpace(c) == c \in {" ", "\n"}

\* number of whitespace characters of s from position i on
RECURSIVE SpaceRun(_, _)
SpaceRun(s, i) ==
    IF i <= Len(s) /\ IsSpace(s[i]) THEN 1 + SpaceRun(s, i + 1) ELSE 0

\* the position after a match of \s*,\s* (star) or \s*,\s (not star) that
\* starts at i, or 0 when there is none
SeparatorEnd(s, i, star) ==
    LET c == i + SpaceRun(s, i)
    IN  IF c > Len(s) \/ s[c] # "," THEN 0
        ELSE IF star THEN c + 1 + SpaceRun(s, c + 1)
        ELSE IF c + 1 <= Len(s) /\ IsSpace(s[c + 1]) THEN c + 2
        ELSE 0

\* re.split(r'\s*,\s*', s) (star) and re.split(r'\s*,\s', s) (not star)
RECURSIVE re_split(_, _)
re_split(s, star) ==
    LET starts == {i \in 1..Len(s) : SeparatorEnd(s, i, star) # 0}
    IN  IF starts = {} THEN <<s>>
        ELSE LET i == Min(starts)
             IN  <<SubSeq(s, 1, i - 1)>>
                 \o re_split(SubSeq(s, SeparatorEnd(s, i, star), Len(s)), star)

fkey_d(conname, m, schema, dsn) ==
    [name |-> conname,
     constrained_columns |->
        LET l == re_split(m.constrained_columns, TRUE)
        IN  [i \in 1..Len(l) |-> _unescape_identifier(l[i])],
     referred_schema |->
        IF m.referred_schema # None /\ m.referred_schema # <<>>
        THEN _unescape_identifier(m.referred_schema)
        ELSE IF schema # None /\ schema = dsn THEN schema
        ELSE m.referred_schema,
     referred_table |-> _unescape_identifier(m.referred_table),
     referred_columns |->
        LET l == re_split(m.referred_columns, FALSE)
        IN  [i \in 1..Len(l) |-> _unescape_identifier(l[i])]]

\* the loop over the fetched rows; None.groups() raises AttributeError
RECURSIVE FkeysLoop(_, _, _, _)
FkeysLoop(rows, fkeys, schema, dsn) ==
    IF rows = <<>> THEN Ok(fkeys)
    ELSE IF FkStarts(rows[1].sql) = {} THEN Raised("AttributeError")
    ELSE FkeysLoop(Tail(rows),
                   Append(fkeys, fkey_d(rows[1].constraint_name,
                                        FkSearch(rows[1].sql), schema, dsn)),
                   schema, dsn)

get_foreign_keys(cat, dsn, table_name, schema) ==
    LET sch == IF schema = None THEN _get_default_schema_name ELSE schema
        rows == SelectSeq(RowsOf(cat.constraints, table_name, sch),
                          LAMBDA r : r.constraint_type = "REFERENTIAL")
    IN  FkeysLoop(rows, <<>>, sch, dsn)

(* ---- get_indexes ---- *)
\* index_row without the lookup of the name: every row opens a record
index_row_always_new(index_names, indexes, row) ==
    LET pos == Len(indexes) + 1
    IN  [indexes |-> Append(indexes, [name |-> row.index_name,
                                      column_names |-> <<row.column_name>>,
                                      unique |-> row.non_unique]),
         index_names |->
            [n \in DOMAIN index_names \cup {row.index_name} |->
                IF n = row.index_name THEN pos ELSE index_names[n]]]

\* index_row storing the negated flag
index_row_negated(index_names, indexes, row) ==
    LET known == row.index_name \in DOMAIN index_names
        pos == IF known THEN index_names[row.index_name] ELSE Len(indexes) + 1
        index_d == IF known THEN indexes[pos] ELSE [column_names |-> <<>>]
        filled == [name |-> row.index_name,
                   column_names |-> Append(index_d.column_names, row.column_name),
                   unique |-> ~row.non_unique]
    IN  [indexes |-> IF known THEN [indexes EXCEPT ![pos] = filled]
                     ELSE Append(indexes, filled),
         index_names |->
            IF known THEN index_names
            ELSE [n \in DOMAIN index_names \cup {row.index_name} |->
                    IF n = row.index_name THEN pos ELSE index_names[n]]]

\* one pass of the loop body: index_names maps a name to the position of its
\* record in indexes
index_row(index_names, indexes, row) ==
    LET known == row.index_name \in DOMAIN index_names
        pos == IF known THEN index_names[row.index_name] ELSE Len(indexes) + 1
        index_d == IF known THEN indexes[pos] ELSE [column_names |-> <<>>]
        filled == [name |-> row.index_name,
                   column_names |-> Append(index_d.column_names, row.column_name),
                   unique |-> row.non_unique]
    IN  [indexes |-> IF known THEN [indexes EXCEPT ![pos] = filled]
                     ELSE Append(indexes, filled),
         index_names |->
            IF known THEN index_names
            ELSE [n \in DOMAIN index_names \cup {row.index_name} |->
                    IF n = row.index_name THEN pos ELSE index_names[n]]]

RECURSIVE IndexesLoop(_, _, _)
IndexesLoop(rows, index_names, indexes) ==
    IF rows = <<>> THEN Ok(indexes)
    ELSE LET st == index_row(index_names, indexes, rows[1])
         IN  IndexesLoop(Tail(rows), st.index_names, st.indexes)

get_indexes(cat, table_name, schema) ==
    LET sch == IF schema = None THEN _get_default_schema_name ELSE schema
    IN  IndexesLoop(RowsOf(cat.indexes, table_name, sch), <<>>, <<>>)

(* ------------------------------------------------------------------ *)
(* H2DDLCompiler                                                        *)
(* ------------------------------------------------------------------ *)
\* the type names whose class is a subclass of sqltypes.Integer
IntegerTypes == {"INTEGER", "BIGINT", "SMALLINT"}

DEFAULT_KW == <<" ","D","E","F","A","U","L","T"," ">>
NOT_NULL == <<" ","N","O","T"," ","N","U","L","L">>
PK_AUTO == <<" ","P","R","I","M","A","R","Y"," ","K","E","Y"," ","A","U","T","O","_","I","N","C","R","E","M","E","N","T">>

\* get_column_specification without the test of the key's column count
get_column_specification_any_key(column) ==
    LET base == column.name \o <<" ">> \o column.type.ddl
        withDefault == IF column.default # None
                       THEN base \o DEFAULT_KW \o column.default
                       ELSE base
        withNull == IF ~column.nullable
                    THEN withDefault \o NOT_NULL
                    ELSE withDefault
    IN  IF /\ column.primary_key
           /\ column.type.cls \in IntegerTypes
           /\ column.foreign_keys = 0
        THEN withNull \o PK_AUTO
        ELSE withNull

\* format_column(column) + " " + type_compiler.process(column.type), then
\* the optional parts appended in order
get_column_specification(column) ==
    LET base == column.name \o <<" ">> \o column.type.ddl
        withDefault == IF column.default # None
                       THEN base \o DEFAULT_KW \o column.default
                       ELSE base
        withNull == IF ~column.nullable
                    THEN withDefault \o NOT_NULL
                    ELSE withDefault
    IN  IF /\ column.primary_key
           /\ column.pk_columns = 1
           /\ column.type.cls \in IntegerTypes
           /\ column.foreign_keys = 0
        THEN withNull \o PK_AUTO
        ELSE withNull

(* ------------------------------------------------------------------ *)
(* Inputs                                                               *)
(* ------------------------------------------------------------------ *)
SCHEMA2 == <<"S","C","H","E","M","A","2">>
TBL2 == <<"T","B","L","2">>

TableArgs == {T_, t_, U_, COL_TABLE_NAME}
SchemaArgs == {None, PUBLIC, public_, S2}

TableRow(sch, name, type) ==
    [table_schema |-> sch, table_name |-> name, table_type |-> type]

ColRow(sch, tbl, name, type, default, nullable, auto) ==
    [table_schema |-> sch, table_name |-> tbl, column_name |-> name,
     type_name |-> type, column_default |-> default, is_nullable |-> nullable,
     auto_increment |-> auto]

IdxRow(sch, tbl, iname, nonUnique, col, pk) ==
    [table_schema |-> sch, table_name |-> tbl, index_name |-> iname,
     non_unique |-> nonUnique, column_name |-> col, primary_key |-> pk]

ConRow(sch, tbl, cname, ctype, sql) ==
    [table_schema |-> sch, table_name |-> tbl, constraint_name |-> cname,
     constraint_type |-> ctype, sql |-> sql]


\* the rows one table contributes to each catalog view, tagged by its name
Tag(r) == r.table_schema \o <<".">> \o r.table_name

FK_PLAIN == FK_LIT \o <<"a", ")", " ">> \o REF_LIT \o TBL2 \o <<"(", "x", ")">>

TableRowList ==
    << TableRow(PUBLIC, T_, TABLE_TYPE_TABLE), TableRow(PUBLIC, t_, TABLE_TYPE_TABLE),
       TableRow(PUBLIC, U_, TABLE_TYPE_VIEW), TableRow(S2, T_, TABLE_TYPE_TABLE),
       TableRow(S2, U_, TABLE_TYPE_TABLE), TableRow(public_, T_, TABLE_TYPE_TABLE) >>

CatalogOf(tables) ==
    LET sel == SelectSeq(TableRowList, LAMBDA r : r \in tables)
    IN  [tables |-> tables,
         columns |-> [i \in 1..Len(sel) |->
             ColRow(sel[i].table_schema, sel[i].table_name, Tag(sel[i]),
                    "INTEGER", None, FALSE, "false")],
         indexes |-> [i \in 1..Len(sel) |->
             IdxRow(sel[i].table_schema, sel[i].table_name,
                    <<"P", "K">>, FALSE, Tag(sel[i]), TRUE)],
         constraints |-> [i \in 1..(2 * Len(sel)) |->
             IF i <= Len(sel)
             THEN ConRow(sel[i].table_schema, sel[i].table_name,
                         <<"P", "K", "_">> \o Tag(sel[i]), "PRIMARY_KEY", <<>>)
             ELSE ConRow(sel[i - Len(sel)].table_schema,
                         sel[i - Len(sel)].table_name,
                         <<"F", "K", "_">> \o Tag(sel[i - Len(sel)]),
                         "REFERENTIAL", FK_PLAIN)]]

EmptyCatalog ==
    [tables |-> {TableRow(PUBLIC, T_, TABLE_TYPE_TABLE)}, columns |-> <<>>,
     indexes |-> <<>>, constraints |-> <<>>]

\* index rows (index name, non-unique flag, column name) of PUBLIC.T
IdxPayloads ==
    [index_name : {<<"i", "1">>, <<"i", "2">>}, non_unique : BOOLEAN,
     column_name : {<<"a">>, <<"b">>}]

\* column rows of PUBLIC.T
DEFAULT_ZERO == <<"0">>
DEFAULT_SEQ == NVF \o <<"S","E","Q","_","X">>
DEFAULT_SEQ_QUOTE == NVF \o <<"S","E","Q","_","X","'">>
DEFAULT_SEQ_DOT == NVF \o <<"S",".","X","'">>

ColPayloads ==
    [type_name : {"INTEGER"},
     column_default : {DEFAULT_SEQ, DEFAULT_SEQ_QUOTE, DEFAULT_SEQ_DOT},
     auto_increment : {"true", "false", "null"}]
    \cup [type_name : {"INTEGER"}, column_default : {None},
          auto_increment : {"true", "false"}]
    \cup [type_name : {"DOUBLE", "FOOBAR"}, column_default : {DEFAULT_ZERO},
          auto_increment : {"false"}]

\* constraint definition texts of PUBLIC.T and S2.T
FkText(prefix, cols, schemaPart, refcols) ==
    prefix \o FK_LIT \o cols \o <<")", " ">> \o REF_LIT \o schemaPart
           \o TBL2 \o <<"(">> \o refcols \o <<")">>

FkPayloads ==
    {FkText(<<>>, c[1], sp, c[2]) :
        c \in {<<<<"a",","," ","b">>, <<"x",","," ","y">>>>, <<<<"a",",","b">>, <<"x",",","y">>>>, <<<<"a">>, <<"x">>>>},
        sp \in {<<>>, SCHEMA2 \o <<".">>}}
    \cup {FkText(<<"A","D","D"," ">>, <<"a"," ",","," ","b">>, <<>>, <<"x"," ",","," "," ","y">>) \o <<" ","N","O","C","H","E","C","K">>,
          <<"C","H","E","C","K","(","a",")">>,
          FK_LIT \o <<"a", ")", " ">> \o TBL2}


Digits == <<"1", "2", "3", "4", "5", "6">>

IdxCatalog(ps) ==
    [EmptyCatalog EXCEPT !.indexes = [i \in 1..Len(ps) |->
        IdxRow(PUBLIC, T_, ps[i].index_name, ps[i].non_unique,
               ps[i].column_name, FALSE)]]

ColCatalog(ps) ==
    [EmptyCatalog EXCEPT !.columns = [i \in 1..Len(ps) |->
        ColRow(PUBLIC, T_, <<"c", Digits[i]>>, ps[i].type_name,
               ps[i].column_default, TRUE, ps[i].auto_increment)]]

FkCatalog(ps) ==
    [EmptyCatalog EXCEPT !.constraints = [i \in 1..(2 * Len(ps)) |->
        IF i <= Len(ps)
        THEN ConRow(PUBLIC, T_, <<"f", Digits[i]>>, "REFERENTIAL", ps[i])
        ELSE ConRow(S2, T_, <<"f", Digits[i - Len(ps)]>>, "REFERENTIAL",
                    ps[i - Len(ps)])]]

\* the column shapes handed to the DDL compiler
DdlTypes ==
    {[cls |-> "INTEGER", ddl |-> <<"I","N","T","E","G","E","R">>], [cls |-> "BIGINT", ddl |-> <<"B","I","G","I","N","T">>],
     [cls |-> "VARCHAR", ddl |-> <<"V","A","R","C","H","A","R">>], [cls |-> "BOOLEAN", ddl |-> <<"B","O","O","L","E","A","N">>]}

DdlColumns ==
    {c \in [name : {<<"i", "d">>}, type : DdlTypes, default : {None, DEFAULT_ZERO},
            nullable : BOOLEAN, primary_key : BOOLEAN,
            pk_columns : 0..MaxPkCols, foreign_keys : 0..1] :
        c.primary_key => c.pk_columns >= 1}

(* ------------------------------------------------------------------ *)
(* State machine                                                        *)
(* ------------------------------------------------------------------ *)
NoCall == [op |-> "none"]
NoResult == [status |-> "none"]

InitRest ==
    /\ default_schema_name = None
    /\ call = NoCall
    /\ result = NoResult

\* a catalog of at most MaxTables tables, each with its own rows
Init ==
    /\ \E ts \in SUBSET Range(TableRowList) :
          Cardinality(ts) <= MaxTables /\ catalog = CatalogOf(ts)
    /\ InitRest

\* one table whose index rows, column rows or constraint rows vary
InitRows ==
    /\ \/ \E ps \in SeqsUpTo(IdxPayloads, MaxIdxRows) : catalog = IdxCatalog(ps)
       \/ \E ps \in SeqsUpTo(ColPayloads, MaxColRows) : catalog = ColCatalog(ps)
       \/ \E ps \in SeqsUpTo(FkPayloads, MaxFkRows) : catalog = FkCatalog(ps)
    /\ InitRest

InitDDL ==
    /\ catalog = EmptyCatalog
    /\ InitRest

\* DefaultDialect.initialize records the default schema on first connect;
\* call and result are the last operation on the dialect and what it returned
Initialize ==
    /\ default_schema_name = None
    /\ default_schema_name' = _get_default_schema_name
    /\ call' = [op |-> "initialize"]
    /\ result' = Ok(None)
    /\ UNCHANGED catalog

TableNames(schema) ==
    /\ call' = [op |-> "table_names", table_name |-> None, schema |-> schema]
    /\ result' = table_names(catalog, schema)
    /\ UNCHANGED <<catalog, default_schema_name>>

GetTableNames(schema) ==
    /\ call' = [op |-> "get_table_names", table_name |-> None, schema |-> schema]
    /\ result' = get_table_names(catalog, schema)
    /\ UNCHANGED <<catalog, default_schema_name>>

HasTable(table_name, schema) ==
    /\ call' = [op |-> "has_table", table_name |-> table_name, schema |-> schema]
    /\ result' = has_table(catalog, table_name, schema)
    /\ UNCHANGED <<catalog, default_schema_name>>

GetColumns(table_name, schema) ==
    /\ call' = [op |-> "get_columns", table_name |-> table_name, schema |-> schema]
    /\ result' = get_columns(catalog, table_name, schema)
    /\ UNCHANGED <<catalog, default_schema_name>>

GetPrimaryKeys(table_name, schema) ==
    /\ call' = [op |-> "get_primary_keys", table_name |-> table_name, schema |-> schema]
    /\ result' = get_primary_keys(catalog, table_name, schema)
    /\ UNCHANGED <<catalog, default_schema_name>>

GetPkConstraint(table_name, schema) ==
    /\ call' = [op |-> "get_pk_constraint", table_name |-> table_name, schema |-> schema]
    /\ result' = get_pk_constraint(catalog, table_name, schema)
    /\ UNCHANGED <<catalog, default_schema_name>>

GetForeignKeys(table_name, schema) ==
    /\ call' = [op |-> "get_foreign_keys", table_name |-> table_name, schema |-> schema]
    /\ result' = get_foreign_keys(catalog, default_schema_name, table_name, schema)
    /\ UNCHANGED <<catalog, default_schema_name>>

GetIndexes(table_name, schema) ==
    /\ call' = [op |-> "get_indexes", table_name |-> table_name, schema |-> schema]
    /\ result' = get_indexes(catalog, table_name, schema)
    /\ UNCHANGED <<catalog, default_schema_name>>

GetColumnSpecification(column) ==
    /\ call' = [op |-> "get_column_specification", column |-> column]
    /\ result' = Ok(get_column_specification(column))
    /\ UNCHANGED <<catalog, default_schema_name>>

Next ==
    \/ Initialize
    \/ \E s \in SchemaArgs : TableNames(s)
    \/ \E s \in SchemaArgs : GetTableNames(s)
    \/ \E t \in TableArgs, s \in SchemaArgs : HasTable(t, s)
    \/ \E t \in TableArgs, s \in SchemaArgs : GetColumns(t, s)
    \/ \E t \in TableArgs, s \in SchemaArgs : GetPrimaryKeys(t, s)
    \/ \E t \in TableArgs, s \in SchemaArgs : GetPkConstraint(t, s)
    \/ \E t \in TableArgs, s \in SchemaArgs : GetForeignKeys(t, s)
    \/ \E t \in TableArgs, s \in SchemaArgs : GetIndexes(t, s)

NextRows ==
    \/ Initialize
    \/ \E s \in SchemaArgs : GetColumns(T_, s)
    \/ \E s \in SchemaArgs : GetForeignKeys(T_, s)
    \/ \E s \in SchemaArgs : GetIndexes(T_, s)

NextDDL ==
    \/ Initialize
    \/ \E c \in DdlColumns : GetColumnSpecification(c)

Spec == Init /\ [][Next]_vars

SpecRows == InitRows /\ [][NextRows]_vars

SpecDDL == InitDDL /\ [][NextDDL]_vars


(* ------------------------------------------------------------------ *)
(* Properties                                                           *)
(* ------------------------------------------------------------------ *)
\* the schema a per-table operation is documented to query
Resolved(schema) == IF schema = None THEN PUBLIC ELSE schema

\* the catalog rows the last call was about
CalledRows(rows) == RowsOf(rows, call.table_name, Resolved(call.schema))

FirstRow(rows, name) ==
    Min({i \in 1..Len(rows) : rows[i].index_name = name})

LastRow(rows, name) ==
    CHOOSE i \in 1..Len(rows) :
        /\ rows[i].index_name = name
        /\ \A j \in (i + 1)..Len(rows) : rows[j].index_name # name

ColumnsOfIndex(rows, name) ==
    LET own == SelectSeq(rows, LAMBDA r : r.index_name = name)
    IN  [i \in 1..Len(own) |-> own[i].column_name]

\* C1: get_indexes returns exactly one record per distinct index name of the
\* catalog rows, in the order in which the names were first seen, and each
\* record's column_names is the list of the column values of the rows with
\* that name, in row order (so never empty).
C1_IndexFold ==
    call.op = "get_indexes" =>
        LET rows == CalledRows(catalog.indexes)
            recs == result.value
        IN  /\ result.status = "ok"
            /\ {recs[k].name : k \in 1..Len(recs)}
                  = {rows[i].index_name : i \in 1..Len(rows)}
            /\ \A k, l \in 1..Len(recs) :
                  k < l => FirstRow(rows, recs[k].name) < FirstRow(rows, recs[l].name)
            /\ \A k \in 1..Len(recs) :
                  /\ recs[k].column_names = ColumnsOfIndex(rows, recs[k].name)
                  /\ Len(recs[k].column_names) >= 1
                  /\ Len(recs[k].column_names)
                        = Cardinality({i \in 1..Len(rows) :
                                          rows[i].index_name = recs[k].name})

\* rows of two indexes interleaved: the first index has two columns
C1_Witness ==
    /\ call.op = "get_indexes"
    /\ result.status = "ok"
    /\ Len(result.value) = 2
    /\ Len(result.value[1].column_names) = 2
    /\ LET rows == CalledRows(catalog.indexes)
       IN  /\ Len(rows) = 3
           /\ rows[1].index_name = rows[3].index_name
           /\ rows[1].index_name # rows[2].index_name
           /\ rows[1].column_name # rows[3].column_name

\* C10: each record's unique field is the non-unique flag of the last row
\* carrying the record's name, stored as read; conflicting flags raise no
\* error.
C10_UniqueIsLastFlag ==
    call.op = "get_indexes" =>
        LET rows == CalledRows(catalog.indexes)
            recs == result.value
        IN  /\ result.status = "ok"
            /\ \A k \in 1..Len(recs) :
                  recs[k].unique = rows[LastRow(rows, recs[k].name)].non_unique

\* one index whose rows carry conflicting flags: the last one is kept
C10_Witness ==
    /\ call.op = "get_indexes"
    /\ result.status = "ok"
    /\ Len(result.value) = 1
    /\ LET rows == CalledRows(catalog.indexes)
       IN  /\ Len(rows) >= 2
           /\ rows[1].non_unique # rows[Len(rows)].non_unique
           /\ result.value[1].unique = rows[Len(rows)].non_unique


\* the default text has the form NEXT VALUE FOR <sequence-name>
IdentChar(c) ==
    c \in Range(UpperLetters) \cup Range(LowerLetters) \cup {"_", "0", "1", "2"}

HasSequenceForm(default) ==
    /\ default # None
    /\ LitAt(default, 1, NVF)
    /\ Len(default) > Len(NVF)
    /\ \A k \in (Len(NVF) + 1)..Len(default) : IdentChar(default[k])

\* C2: a column whose default text has the form NEXT VALUE FOR <name> is
\* returned with autoincrement true, whatever the AUTO_INCREMENT value of
\* the type-metadata join is.
C2_SequenceDefaultForcesAutoincrement ==
    (call.op = "get_columns" /\ result.status = "ok") =>
        LET rows == CalledRows(catalog.columns)
        IN  \A i \in 1..Len(rows) :
                HasSequenceForm(rows[i].column_default)
                    => result.value[i].autoincrement = "true"

Contains(s, lit) == \E i \in 1..Len(s) : LitAt(s, i, lit)

CleanName(x) ==
    /\ "," \notin Range(x)
    /\ x # <<>> => ~IsSpace(x[1]) /\ ~IsSpace(x[Len(x)])

\* C3: both the constrained and the referred column list are split on
\* commas with the surrounding whitespace removed: no entry of either list
\* contains a comma or starts or ends with whitespace.
C3_BothListsSplitOnCommas ==
    (call.op = "get_foreign_keys" /\ result.status = "ok") =>
        \A k \in 1..Len(result.value) :
            /\ \A i \in 1..Len(result.value[k].constrained_columns) :
                  CleanName(result.value[k].constrained_columns[i])
            /\ \A i \in 1..Len(result.value[k].referred_columns) :
                  CleanName(result.value[k].referred_columns[i])

ReferentialRows ==
    SelectSeq(CalledRows(catalog.constraints),
              LAMBDA r : r.constraint_type = "REFERENTIAL")

\* C5: when the text names a schema, referred_schema is that schema; when
\* it names none, referred_schema is the reflected schema only if the
\* caller passed an explicit schema equal to the recorded default, and is
\* None when the caller passed None or another schema.
C5_ReferredSchemaOnlyForExplicitDefault ==
    (call.op = "get_foreign_keys" /\ result.status = "ok") =>
        LET rows == ReferentialRows
        IN  \A k \in 1..Len(rows) :
                LET named == FkSearch(rows[k].sql).referred_schema
                    got == result.value[k].referred_schema
                IN  IF named # None THEN got = named
                    ELSE IF call.schema # None /\ call.schema = default_schema_name
                         THEN got = call.schema
                         ELSE got = None

\* C8: get_columns ends in an error, returning no list, when some row's
\* type name is not mapped, and get_foreign_keys does when some row's text
\* does not match the pattern; otherwise the result has exactly one record
\* per catalog row.
C8_AllOrNothing ==
    /\ call.op = "get_columns" =>
          LET rows == CalledRows(catalog.columns)
          IN  IF \E i \in 1..Len(rows) : rows[i].type_name \notin DOMAIN ischema_names
              THEN result.status = "error" /\ "value" \notin DOMAIN result
              ELSE /\ result.status = "ok"
                   /\ Len(result.value) = Len(rows)
                   /\ \A i \in 1..Len(rows) :
                         result.value[i].name = rows[i].column_name
    /\ call.op = "get_foreign_keys" =>
          LET rows == ReferentialRows
          IN  IF \E i \in 1..Len(rows) : FkStarts(rows[i].sql) = {}
              THEN result.status = "error" /\ "value" \notin DOMAIN result
              ELSE /\ result.status = "ok"
                   /\ Len(result.value) = Len(rows)
                   /\ \A i \in 1..Len(rows) :
                         result.value[i].name = rows[i].constraint_name

\* a mapped column row followed by an unmapped one: no list is returned
C8_Witness ==
    /\ call.op = "get_columns"
    /\ result.status = "error"
    /\ LET rows == CalledRows(catalog.columns)
       IN  /\ Len(rows) = 2
           /\ rows[1].type_name \in DOMAIN ischema_names
           /\ rows[2].type_name \notin DOMAIN ischema_names


TableOps == {"get_columns", "get_primary_keys", "get_pk_constraint",
             "get_foreign_keys", "get_indexes"}

\* the result of an operation on the present catalog
Reflect(op, table_name, schema) ==
    CASE op = "table_names" -> table_names(catalog, schema)
      [] op = "get_table_names" -> get_table_names(catalog, schema)
      [] op = "has_table" -> has_table(catalog, table_name, schema)
      [] op = "get_columns" -> get_columns(catalog, table_name, schema)
      [] op = "get_primary_keys" -> get_primary_keys(catalog, table_name, schema)
      [] op = "get_pk_constraint" -> get_pk_constraint(catalog, table_name, schema)
      [] op = "get_foreign_keys" ->
            get_foreign_keys(catalog, default_schema_name, table_name, schema)
      [] op = "get_indexes" -> get_indexes(catalog, table_name, schema)

UpperOrNone(x) == IF x = None THEN None ELSE upper(x)

ReturnsTrue(r) == r.status = "ok" /\ r.value

\* the upper-cased name is in the list table_names returns for the schema
Listed(table_name, schema) ==
    LET r == table_names(catalog, schema)
    IN  r.status = "ok" /\ upper(table_name) \in Range(r.value)

\* C4: every operation filters on the upper-cased table and schema name, so
\* a call returns what the same call with the names in upper case returns,
\* and a table has_table reports as present under a name is reflected by
\* get_columns under that name.
C4_NamesUpperCased ==
    /\ call.op \in TableOps \cup {"table_names", "has_table"} =>
          result = Reflect(call.op, UpperOrNone(call.table_name),
                           UpperOrNone(call.schema))
    /\ (/\ call.op = "get_columns"
        /\ ReturnsTrue(has_table(catalog, call.table_name, call.schema))) =>
          result.status = "ok" /\ result.value # <<>>

\* C6: has_table returns true exactly when the upper-cased table name is in
\* the list table_names returns for the same schema argument.
C6_HasTableAgreesWithTableNames ==
    /\ call.op = "has_table" =>
          (ReturnsTrue(result) <=> Listed(call.table_name, call.schema))
    /\ call.op \in {"table_names", "get_table_names"} =>
          \A t \in TableArgs :
              ReturnsTrue(has_table(catalog, t, call.schema))
                  <=> (result.status = "ok" /\ upper(t) \in Range(result.value))

EndsWith(s, lit) == LitAt(s, Len(s) - Len(lit) + 1, lit)

KeyShape(c) ==
    /\ c.primary_key
    /\ c.pk_columns = 1
    /\ c.type.cls \in {"INTEGER", "BIGINT", "SMALLINT"}
    /\ c.foreign_keys = 0

\* C9: the specification ends with PRIMARY KEY AUTO_INCREMENT exactly for a
\* primary-key column of a one-column key with an integer type and no
\* foreign keys, and contains it for no other column; NOT NULL is emitted
\* exactly when the column is not nullable, and before that suffix.
C9_PrimaryKeySuffix ==
    call.op = "get_column_specification" =>
        LET c == call.column
            out == result.value
        IN  /\ Contains(out, PK_AUTO) <=> KeyShape(c)
            /\ KeyShape(c) => EndsWith(out, PK_AUTO)
            /\ Contains(out, NOT_NULL) <=> ~c.nullable
            /\ (KeyShape(c) /\ ~c.nullable) => EndsWith(out, NOT_NULL \o PK_AUTO)
            /\ (~KeyShape(c) /\ ~c.nullable) => EndsWith(out, NOT_NULL)

\* an integer column of a two-column key: NOT NULL without the suffix
C9_Witness ==
    /\ call.op = "get_column_specification"
    /\ call.column.primary_key
    /\ call.column.pk_columns = 2
    /\ call.column.type.cls = "INTEGER"
    /\ call.column.foreign_keys = 0
    /\ ~call.column.nullable
    /\ EndsWith(result.value, NOT_NULL)

====
